---- MODULE Spec2Model ----
(***************************************************************************)
(* Model of Scripts/Setup.py: clean an Unreal Engine project tree and      *)
(* regenerate its project files.                                           *)
(*                                                                         *)
(* Strings are sequences of one-character strings, so that lower(),        *)
(* splitext() and the substring test `a in b` are computed as Python       *)
(* computes them.  A path is a sequence of names (os.path.join appends a   *)
(* name, os.path.dirname drops the last one, os.path.basename is the last  *)
(* one).  A filesystem is a function from the existing paths to "dir" or   *)
(* "file".                                                                 *)
(***************************************************************************)
EXTENDS Integers, Sequences, FiniteSets, TLC

VARIABLES
    pc,             \* position of the run
    fs,             \* the filesystem
    fs0,            \* the filesystem when the run started (history)
    snap,           \* the filesystem after the first clear_directory (history)
    exit_status,    \* -1 while running, else the process's exit status
    error,          \* "none", or the exception that ended the run
    epic_dir,       \* what os.environ.get('EPIC_DIR') returned ("unread" before)
    engine_isdir,   \* what os.path.isdir(full_path) returned ("unread" before)
    project_isfile, \* what os.path.isfile(project_path) returned ("unread" before)
    scan_devenv,    \* a process named devenv.exe was in the table is_running_vs_solution scanned
    procs,          \* the process table handed to is_running_ue_solution
    ue_result,      \* what is_running_ue_solution returned ("none" before; the exception's name when it raised)
    cleared,        \* the paths clear_directory has been called with (history)
    todo,           \* names of os.listdir(plugin_path) not yet visited by the loop
    missing_logged, \* the "Can't find plugins directory" message has been printed
    tool_present,   \* what os.path.isfile(build_script) returned ("unread" before)
    tool_runs,      \* number of subprocess.run calls made
    tool_rc,        \* the build tool's return code (-1 before)
    tool_log        \* "none", "regenerated" or "failed": the message printed after the tool ran

vars == <<pc, fs, fs0, snap, exit_status, error, epic_dir, engine_isdir, project_isfile,
          scan_devenv, procs, ue_result, cleared, todo, missing_logged, tool_present,
          tool_runs, tool_rc, tool_log>>

----------------------------------------------------------------------------
(* Strings *)

UpperLetters ==
    <<"A","B","C","D","E","F","G","H","I","J","K","L","M",
      "N","O","P","Q","R","S","T","U","V","W","X","Y","Z">>

LowerLetters ==
    <<"a","b","c","d","e","f","g","h","i","j","k","l","m",
      "n","o","p","q","r","s","t","u","v","w","x","y","z">>

\* str.lower() on the letters A-Z
LowerTable ==
    [c \in {UpperLetters[i] : i \in 1..26} |->
        LowerLetters[CHOOSE i \in 1..26 : UpperLetters[i] = c]]

\* str.lower() on one character
LowerChar(c) == IF c \in DOMAIN LowerTable THEN LowerTable[c] ELSE c

\* str.lower()
Lower(s) == [i \in 1..Len(s) |-> LowerChar(s[i])]

\* Python's `sub in s` on strings
Contains(sub, s) ==
    \E i \in 0..(Len(s) - Len(sub)) : SubSeq(s, i + 1, i + Len(sub)) = sub

\* str.rfind of one character, 1-based; 0 when absent
RFind(s, c) ==
    IF \E i \in 1..Len(s) : s[i] = c
    THEN CHOOSE i \in 1..Len(s) : s[i] = c /\ \A j \in (i+1)..Len(s) : s[j] # c
    ELSE 0

\* os.path.splitext on a name without separators: <<root, ext>>.  The extension
\* starts at the last dot, unless only dots precede that dot.
SplitExt(p) ==
    LET dotIndex == RFind(p, ".")
    IN  IF dotIndex > 0 /\ \E i \in 1..(dotIndex - 1) : p[i] # "."
        THEN <<SubSeq(p, 1, dotIndex - 1), SubSeq(p, dotIndex, Len(p))>>
        ELSE <<p, <<>>>>

----------------------------------------------------------------------------
(* Names *)

DotVs            == <<".","v","s">>
Binaries         == <<"B","i","n","a","r","i","e","s">>
DerivedDataCache == <<"D","e","r","i","v","e","d","D","a","t","a","C","a","c","h","e">>
Intermediate     == <<"I","n","t","e","r","m","e","d","i","a","t","e">>
Saved            == <<"S","a","v","e","d">>

\* Target folders to delete
folders == <<DotVs, Binaries, DerivedDataCache, Intermediate, Saved>>

DotSln == <<".","s","l","n">>
Plugins == <<"P","l","u","g","i","n","s">>

----------------------------------------------------------------------------
(* Filesystem *)

Exists(f, p) == p \in DOMAIN f
IsDir(f, p)  == p \in DOMAIN f /\ f[p] = "dir"
IsFile(f, p) == p \in DOMAIN f /\ f[p] = "file"

Join(p, name) == Append(p, name)
DirName(p)    == SubSeq(p, 1, Len(p) - 1)
BaseName(p)   == p[Len(p)]

IsPrefix(p, q) == Len(p) <= Len(q) /\ SubSeq(q, 1, Len(p)) = p

\* os.listdir: the names of the immediate children
ListDir(f, p) == {BaseName(q) : q \in {r \in DOMAIN f : Len(r) = Len(p) + 1 /\ IsPrefix(p, r)}}

\* shutil.rmtree: the directory and everything below it
RmTree(f, p) == [q \in {r \in DOMAIN f : ~IsPrefix(p, r)} |-> f[q]]

\* os.remove
Remove(f, p) == [q \in DOMAIN f \ {p} |-> f[q]]

InFolders(name) == \E i \in 1..Len(folders) : folders[i] = name

\* clear_directory's loop body with the folder name compared whatever its case
ClearEntryAnyCase(f, target_path, path_name) ==
    LET full_path == Join(target_path, path_name)
    IN  IF IsDir(f, full_path)
        THEN IF \E i \in 1..Len(folders) : Lower(folders[i]) = Lower(path_name)
             THEN RmTree(f, full_path) ELSE f
        ELSE IF Lower(SplitExt(path_name)[2]) = DotSln
             THEN Remove(f, full_path)
             ELSE f

\* One iteration of clear_directory's loop
ClearEntry(f, target_path, path_name) ==
    LET full_path == Join(target_path, path_name)
    IN  IF IsDir(f, full_path)
        THEN IF InFolders(path_name) THEN RmTree(f, full_path) ELSE f
        ELSE IF Lower(SplitExt(path_name)[2]) = DotSln
             THEN Remove(f, full_path)
             ELSE f

\* clear_directory's loop leaving after the first entry it removed
RECURSIVE ClearEntriesOnce(_, _, _)
ClearEntriesOnce(f, target_path, names) ==
    IF names = {} THEN f
    ELSE LET n == CHOOSE x \in names : TRUE
             g == ClearEntry(f, target_path, n)
         IN  IF g # f THEN g ELSE ClearEntriesOnce(f, target_path, names \ {n})

ClearDirectoryOnce(f, target_path) == ClearEntriesOnce(f, target_path, ListDir(f, target_path))

\* clear_directory comparing the extension without lowering it
RECURSIVE ClearEntriesExact(_, _, _)
ClearEntriesExact(f, target_path, names) ==
    IF names = {} THEN f
    ELSE LET n == CHOOSE x \in names : TRUE
             full_path == Join(target_path, n)
             g == IF IsDir(f, full_path)
                  THEN IF InFolders(n) THEN RmTree(f, full_path) ELSE f
                  ELSE IF SplitExt(n)[2] = DotSln THEN Remove(f, full_path) ELSE f
         IN  ClearEntriesExact(g, target_path, names \ {n})

ClearDirectoryExactExt(f, target_path) ==
    ClearEntriesExact(f, target_path, ListDir(f, target_path))

RECURSIVE ClearEntries(_, _, _)
ClearEntries(f, target_path, names) ==
    IF names = {} THEN f
    ELSE LET n == CHOOSE x \in names : TRUE
         IN  ClearEntries(ClearEntry(f, target_path, n), target_path, names \ {n})

\* clear_directory on a directory (os.listdir raises on anything else)
ClearDirectory(f, target_path) == ClearEntries(f, target_path, ListDir(f, target_path))

----------------------------------------------------------------------------
(* Process table *)

\* psutil fills an attribute it could not read with None
NoneName    == <<"<None>">>
NoneCmdline == <<NoneName>>

Devenv       == <<"d","e","v","e","n","v",".","e","x","e">>
UE4Editor    == <<"U","E","4","E","d","i","t","o","r",".","e","x","e">>
UnrealEditor == <<"U","n","r","e","a","l","E","d","i","t","o","r",".","e","x","e">>
CmdExe       == <<"c","m","d",".","e","x","e">>

MyUproject   == <<"M","y",".","u","p","r","o","j","e","c","t">>
ArgMine      == <<"G","/","M","Y",".","U","P","R","O","J","E","C","T">>
ArgOther     == <<"O","t",".","u","p","r","o","j","e","c","t">>
ArgSln       == <<"O","t",".","s","l","n">>

Proc(name, cmdline) == [name |-> name, cmdline |-> cmdline]

ProcKinds ==
    { Proc(Devenv,       <<Devenv, ArgSln>>),
      Proc(UnrealEditor, <<UnrealEditor, ArgMine>>),
      Proc(UnrealEditor, <<UnrealEditor, ArgOther>>),
      Proc(UE4Editor,    <<UE4Editor, MyUproject>>),
      Proc(UE4Editor,    <<UE4Editor, ArgOther>>),
      Proc(UnrealEditor, NoneCmdline),
      Proc(CmdExe,       <<CmdExe>>),
      Proc(NoneName,     NoneCmdline) }

MaxProcs == 2

RECURSIVE SeqsUpTo(_, _)
SeqsUpTo(S, n) ==
    IF n = 0 THEN {<<>>}
    ELSE SeqsUpTo(S, n - 1) \cup
         {Append(t, x) : t \in {u \in SeqsUpTo(S, n - 1) : Len(u) = n - 1}, x \in S}

ProcTables == SeqsUpTo(ProcKinds, MaxProcs)

\* is_process_running from the i-th process on: the index of the first process
\* whose name contains process_name (both lowered), 0 for None, -1 when
\* None.lower() raises AttributeError (not one of the exceptions caught)
RECURSIVE ScanFrom(_, _, _)
ScanFrom(t, process_name, i) ==
    IF i > Len(t) THEN 0
    ELSE IF t[i].name = NoneName THEN -1
    ELSE IF ~Contains(Lower(process_name), Lower(t[i].name))
         THEN ScanFrom(t, process_name, i + 1)
         ELSE i

IsProcessRunning(t, process_name) == ScanFrom(t, process_name, 1)

\* is_running_vs_solution with the specific check its TODO announces
IsRunningVsSolutionSpecific(t, uproject_path) ==
    LET process == IsProcessRunning(t, Devenv)
    IN  IF process = -1 THEN "AttributeError"
        ELSE IF process # 0 /\ t[process].cmdline # NoneCmdline
                /\ \E a \in 1..Len(t[process].cmdline) :
                      Contains(Lower(SplitExt(BaseName(uproject_path))[1]),
                               Lower(t[process].cmdline[a]))
             THEN "true"
        ELSE "false"

\* is_running_vs_solution: "true", "false" or the exception raised
IsRunningVsSolution(t, uproject_path) ==
    LET process == IsProcessRunning(t, Devenv)
    IN  IF process = -1 THEN "AttributeError"
        ELSE IF process # 0 THEN "true"
        ELSE "false"

\* One iteration of is_running_ue_solution's loop over the editor names:
\* "true" for return True, "false" for falling through to the next iteration
EditorCheck(t, solution, editor) ==
    LET process == IsProcessRunning(t, editor)
    IN  IF process = -1 THEN "AttributeError"
        ELSE IF process = 0 THEN "false"
        ELSE IF t[process].cmdline = NoneCmdline THEN "TypeError"
        ELSE IF \E a \in 1..Len(t[process].cmdline) :
                    Contains(solution, Lower(t[process].cmdline[a]))
             THEN "true"
             ELSE "false"

\* is_running_ue_solution: "true", "false" or the exception raised
IsRunningUeSolution(t, uproject_path) ==
    LET solution == Lower(BaseName(uproject_path))
        first    == EditorCheck(t, solution, UE4Editor)
    IN  IF first # "false" THEN first
        ELSE EditorCheck(t, solution, UnrealEditor)

----------------------------------------------------------------------------
(* The trees the runs start from *)

Proj        == <<"G">>
RootPath    == <<Proj>>                      \* os.path.dirname( project_path )
ProjectPath == Join(RootPath, MyUproject)    \* os.path.abspath( args.project )
PluginPath  == Join(RootPath, Plugins)       \* os.path.join( root_path, 'Plugins' )

LowerBinaries == <<"b","i","n","a","r","i","e","s">>
UpperSaved    == <<"S","A","V","E","D">>
Source   == <<"S","o","u","r","c","e">>
PlugA    == <<"P","A">>
PlugB    == <<"P","B">>
Sub      == <<"S","u","b">>
ObjFile  == <<"o">>
GameSln  == <<"G",".","s","l","n">>
UpperSln == <<"A",".","S","L","N">>
MixedSln == <<"c",".","S","l","n">>
TxtFile  == <<"a",".","t","x","t">>
HiddenSln == <<".","s","l","n">>
BareSln  == <<"s","l","n">>
SlnBak   == <<"a",".","s","l","n",".","b","a","k">>
TwoDots  == <<"x",".","y",".","s","l","n">>
Slnx     == <<"a",".","s","l","n","x">>
DotsSln  == <<".",".","s","l","n">>
SlnDir   == <<"b",".","s","l","n">>
Readme   == <<"r",".","t","x","t">>

Entry(path, kind) == [path |-> path, kind |-> kind]
Dir(path)  == Entry(path, "dir")
File(path) == Entry(path, "file")

\* Always there: the project's directory and, beside it, an artifact-named
\* directory and a solution file that belong to nobody's project.
BaseEntries ==
    { Dir(<<>>), Dir(RootPath),
      Dir(<<Saved>>), File(<<Saved, ObjFile>>), File(<<GameSln>>) }

WellFormed(S) ==
    /\ \A a, b \in S : a.path = b.path => a = b
    /\ \A a \in S : a.path # <<>> => Dir(DirName(a.path)) \in S

MkFs(S) == [p \in {e.path : e \in S} |-> (CHOOSE e \in S : e.path = p).kind]

\* The trees made of the base entries and one of the given choices of pieces
TreesOf(choices) ==
    {MkFs(BaseEntries \cup UNION c) : c \in {d \in choices : WellFormed(BaseEntries \cup UNION d)}}

\* Pieces a project tree is put together from
MainPieces ==
    { {File(ProjectPath)},
      {Dir(ProjectPath)},
      {Dir(Join(RootPath, Binaries)), File(<<Proj, Binaries, ObjFile>>)},
      {File(Join(RootPath, GameSln))},
      {Dir(Join(RootPath, Source)), Dir(<<Proj, Source, Binaries>>)},
      {Dir(PluginPath)},
      {File(PluginPath)},
      {Dir(Join(PluginPath, PlugA)), Dir(<<Proj, Plugins, PlugA, Intermediate>>),
       File(<<Proj, Plugins, PlugA, Intermediate, ObjFile>>),
       File(<<Proj, Plugins, PlugA, UpperSln>>),
       Dir(<<Proj, Plugins, PlugA, Sub>>), Dir(<<Proj, Plugins, PlugA, Sub, Saved>>)},
      {Dir(Join(PluginPath, PlugB)), Dir(<<Proj, Plugins, PlugB, DotVs>>)},
      {File(Join(PluginPath, Readme))} }

MainTrees == TreesOf(SUBSET MainPieces)

\* Children clear_directory may find in the directory it is given
ClearPieces ==
    { {Dir(Join(RootPath, DotVs))},
      {Dir(Join(RootPath, Binaries)), File(<<Proj, Binaries, ObjFile>>)},
      {Dir(Join(RootPath, DerivedDataCache))},
      {Dir(Join(RootPath, Intermediate)), Dir(<<Proj, Intermediate, Saved>>)},
      {Dir(Join(RootPath, Saved)), File(<<Proj, Saved, GameSln>>)},
      {File(Join(RootPath, Saved))},
      {Dir(Join(RootPath, LowerBinaries)), File(<<Proj, LowerBinaries, ObjFile>>)},
      {Dir(Join(RootPath, UpperSaved))},
      {Dir(Join(RootPath, Source)), Dir(<<Proj, Source, Binaries>>),
       File(<<Proj, Source, GameSln>>)},
      {Dir(Join(RootPath, SlnDir)), File(<<Proj, SlnDir, ObjFile>>)},
      {File(Join(RootPath, GameSln))},
      {File(Join(RootPath, UpperSln))},
      {File(Join(RootPath, MixedSln))},
      {File(Join(RootPath, TxtFile))},
      {File(Join(RootPath, HiddenSln))},
      {File(Join(RootPath, BareSln))},
      {File(Join(RootPath, SlnBak))},
      {File(Join(RootPath, TwoDots))},
      {File(Join(RootPath, Slnx))},
      {File(Join(RootPath, DotsSln))},
      {File(Join(RootPath, ObjFile))} }

MaxEntries == 3

\* The subsets of S of at most n elements
RECURSIVE SubsetsUpTo(_, _)
SubsetsUpTo(S, n) ==
    IF n = 0 THEN {{}}
    ELSE LET smaller == SubsetsUpTo(S, n - 1)
         IN  smaller \cup {T \cup {x} : T \in smaller, x \in S}

ClearTrees == TreesOf(SubsetsUpTo(ClearPieces, MaxEntries))

----------------------------------------------------------------------------
(* main *)

InitCommon ==
    /\ fs0 = fs
    /\ snap = fs
    /\ exit_status = -1
    /\ error = "none"
    /\ epic_dir = "unread"
    /\ engine_isdir = "unread"
    /\ project_isfile = "unread"
    /\ scan_devenv = FALSE
    /\ ue_result = "none"
    /\ cleared = {}
    /\ todo = {}
    /\ missing_logged = FALSE
    /\ tool_present = "unread"
    /\ tool_runs = 0
    /\ tool_rc = -1
    /\ tool_log = "none"

Init ==
    /\ pc = "parse"
    /\ fs \in MainTrees
    /\ procs = <<>>
    /\ InitCommon

\* sys.exit( code )
Exit(code) ==
    /\ pc' = "exited"
    /\ exit_status' = code
    /\ error' = error

\* An exception nobody catches: the interpreter prints the traceback and the
\* process ends with status 1
Raise(exception) ==
    /\ pc' = "crashed"
    /\ exit_status' = 1
    /\ error' = exception

Goto(label) ==
    /\ pc' = label
    /\ exit_status' = exit_status
    /\ error' = error

Bool(b) == IF b THEN "true" ELSE "false"

\* parser.parse_args( ): both options are required; argparse exits with 2
ParseArgs ==
    /\ pc = "parse"
    /\ \E given \in BOOLEAN : IF given THEN Goto("resolve") ELSE Exit(2)
    /\ UNCHANGED <<fs, fs0, snap, epic_dir, engine_isdir, project_isfile, scan_devenv,
                   procs, ue_result, cleared, todo, missing_logged, tool_present,
                   tool_runs, tool_rc, tool_log>>

\* resolve_engine_path( args.engine )
ResolveEnginePath ==
    /\ pc = "resolve"
    /\ \E epic_path \in {"unset", "empty", "set"}, isdir \in BOOLEAN :
          /\ epic_dir' = epic_path
          /\ IF epic_path \in {"unset", "empty"}
             THEN engine_isdir' = engine_isdir /\ Exit(1)
             ELSE /\ engine_isdir' = Bool(isdir)
                  /\ IF ~isdir THEN Exit(1) ELSE Goto("validate")
    /\ UNCHANGED <<fs, fs0, snap, project_isfile, scan_devenv, procs, ue_result, cleared,
                   todo, missing_logged, tool_present, tool_runs, tool_rc, tool_log>>

\* the project test printing its message and going on
ValidateProjectNoExit ==
    /\ pc = "validate"
    /\ project_isfile' = Bool(IsFile(fs, ProjectPath))
    /\ Goto("check_vs")
    /\ UNCHANGED <<fs, fs0, snap, epic_dir, engine_isdir, scan_devenv, procs, ue_result,
                   cleared, todo, missing_logged, tool_present, tool_runs, tool_rc,
                   tool_log>>

\* if not os.path.isfile( project_path ) : sys.exit( 1 )
ValidateProject ==
    /\ pc = "validate"
    /\ project_isfile' = Bool(IsFile(fs, ProjectPath))
    /\ IF ~IsFile(fs, ProjectPath) THEN Exit(1) ELSE Goto("check_vs")
    /\ UNCHANGED <<fs, fs0, snap, epic_dir, engine_isdir, scan_devenv, procs, ue_result,
                   cleared, todo, missing_logged, tool_present, tool_runs, tool_rc,
                   tool_log>>

\* a process whose name is devenv.exe
HasDevenv(t) == \E i \in 1..Len(t) : t[i].name = Devenv

\* if is_running_vs_solution( project_path ) ... : sys.exit( 1 )
CheckVs ==
    /\ pc = "check_vs"
    /\ \E t \in ProcTables :
          LET r == IsRunningVsSolution(t, ProjectPath)
          IN  /\ scan_devenv' = HasDevenv(t)
              /\ IF r = "true" THEN Exit(1)
                 ELSE IF r = "false" THEN Goto("check_ue")
                 ELSE Raise(r)
    /\ UNCHANGED <<fs, fs0, snap, epic_dir, engine_isdir, project_isfile, procs, ue_result,
                   cleared, todo, missing_logged, tool_present, tool_runs, tool_rc,
                   tool_log>>

\* if ... or is_running_ue_solution( project_path ) : sys.exit( 1 )
CheckUe ==
    /\ pc = "check_ue"
    /\ \E t \in ProcTables :
          LET r == IsRunningUeSolution(t, ProjectPath)
          IN  /\ ue_result' = r
              /\ IF r = "true" THEN Exit(1)
                 ELSE IF r = "false" THEN Goto("clean_root")
                 ELSE Raise(r)
    /\ UNCHANGED <<fs, fs0, snap, epic_dir, engine_isdir, project_isfile, scan_devenv,
                   procs, cleared, todo, missing_logged, tool_present, tool_runs, tool_rc,
                   tool_log>>

\* clean_project: clear_directory( root_path )
CleanRoot ==
    /\ pc = "clean_root"
    /\ cleared' = cleared \cup {RootPath}
    /\ fs' = ClearDirectory(fs, RootPath)
    /\ Goto("plugins")
    /\ UNCHANGED <<fs0, snap, epic_dir, engine_isdir, project_isfile, scan_devenv, procs,
                   ue_result, todo, missing_logged, tool_present, tool_runs, tool_rc,
                   tool_log>>

\* clean_project listing the Plugins directory without testing that it exists
PluginsCheckNoTest ==
    /\ pc = "plugins"
    /\ missing_logged' = missing_logged
    /\ IF ~IsDir(fs, PluginPath)
       THEN /\ todo' = todo
            /\ Raise(IF Exists(fs, PluginPath) THEN "NotADirectoryError"
                                               ELSE "FileNotFoundError")
       ELSE /\ todo' = ListDir(fs, PluginPath)
            /\ IF ListDir(fs, PluginPath) = {}
               THEN Goto("create") ELSE Goto("plugin_loop")
    /\ UNCHANGED <<fs, fs0, snap, epic_dir, engine_isdir, project_isfile, scan_devenv,
                   procs, ue_result, cleared, tool_present, tool_runs, tool_rc, tool_log>>

\* clean_project: the test for the Plugins directory and os.listdir( plugin_path )
PluginsCheck ==
    /\ pc = "plugins"
    /\ IF ~Exists(fs, PluginPath)
       THEN missing_logged' = TRUE /\ todo' = todo /\ Goto("create")
       ELSE /\ missing_logged' = missing_logged
            /\ IF ~IsDir(fs, PluginPath)
               THEN todo' = todo /\ Raise("NotADirectoryError")
               ELSE /\ todo' = ListDir(fs, PluginPath)
                    /\ IF ListDir(fs, PluginPath) = {}
                       THEN Goto("create") ELSE Goto("plugin_loop")
    /\ UNCHANGED <<fs, fs0, snap, epic_dir, engine_isdir, project_isfile, scan_devenv,
                   procs, ue_result, cleared, tool_present, tool_runs, tool_rc, tool_log>>

\* clean_project: one iteration of the loop over os.listdir( plugin_path ), which
\* lists in no particular order; os.listdir( full_path ) in clear_directory raises
\* when full_path is not a directory
CleanPlugin ==
    /\ pc = "plugin_loop"
    /\ \E plugin_name \in todo :
          LET full_path == Join(PluginPath, plugin_name)
          IN  /\ cleared' = cleared \cup {full_path}
              /\ IF ~IsDir(fs, full_path)
                 THEN fs' = fs /\ todo' = todo /\ Raise("NotADirectoryError")
                 ELSE /\ fs' = ClearDirectory(fs, full_path)
                      /\ todo' = todo \ {plugin_name}
                      /\ IF todo = {plugin_name}
                         THEN Goto("create") ELSE Goto("plugin_loop")
    /\ UNCHANGED <<fs0, snap, epic_dir, engine_isdir, project_isfile, scan_devenv, procs,
                   ue_result, missing_logged, tool_present, tool_runs, tool_rc, tool_log>>

\* create_project printing that the build script is missing and going on
CreateProjectNoExit ==
    /\ pc = "create"
    /\ \E present \in BOOLEAN, returncode \in {0, 1} :
          /\ tool_present' = Bool(present)
          /\ tool_runs' = tool_runs + 1
          /\ tool_rc' = returncode
          /\ tool_log' = IF returncode = 0 THEN "regenerated" ELSE "failed"
          /\ pc' = "done"
          /\ exit_status' = 0
          /\ error' = error
    /\ UNCHANGED <<fs, fs0, snap, epic_dir, engine_isdir, project_isfile, scan_devenv,
                   procs, ue_result, cleared, todo, missing_logged>>

\* create_project ending the process with the tool's return code
CreateProjectPropagate ==
    /\ pc = "create"
    /\ \E present \in BOOLEAN, returncode \in {0, 1} :
          /\ tool_present' = Bool(present)
          /\ IF ~present
             THEN /\ Exit(1)
                  /\ UNCHANGED <<tool_runs, tool_rc, tool_log>>
             ELSE /\ tool_runs' = tool_runs + 1
                  /\ tool_rc' = returncode
                  /\ tool_log' = IF returncode = 0 THEN "regenerated" ELSE "failed"
                  /\ pc' = "done"
                  /\ exit_status' = returncode
                  /\ error' = error
    /\ UNCHANGED <<fs, fs0, snap, epic_dir, engine_isdir, project_isfile, scan_devenv,
                   procs, ue_result, cleared, todo, missing_logged>>

\* create_project( engine_path, project_path ), and main returning after it
CreateProject ==
    /\ pc = "create"
    /\ \E present \in BOOLEAN, returncode \in {0, 1} :
          /\ tool_present' = Bool(present)
          /\ IF ~present
             THEN /\ Exit(1)
                  /\ UNCHANGED <<tool_runs, tool_rc, tool_log>>
             ELSE /\ tool_runs' = tool_runs + 1
                  /\ tool_rc' = returncode
                  /\ tool_log' = IF returncode = 0 THEN "regenerated" ELSE "failed"
                  /\ pc' = "done"
                  /\ exit_status' = 0
                  /\ error' = error
    /\ UNCHANGED <<fs, fs0, snap, epic_dir, engine_isdir, project_isfile, scan_devenv,
                   procs, ue_result, cleared, todo, missing_logged>>

Next ==
    \/ ParseArgs
    \/ ResolveEnginePath
    \/ ValidateProject
    \/ CheckVs
    \/ CheckUe
    \/ CleanRoot
    \/ PluginsCheck
    \/ CleanPlugin
    \/ CreateProject

Spec == Init /\ [][Next]_vars

----------------------------------------------------------------------------
(* clear_directory on its own: called twice in a row on one directory *)

InitClear ==
    /\ pc = "clear_first"
    /\ fs \in ClearTrees
    /\ procs = <<>>
    /\ InitCommon

ClearFirst ==
    /\ pc = "clear_first"
    /\ fs' = ClearDirectory(fs, RootPath)
    /\ snap' = fs'
    /\ cleared' = cleared \cup {RootPath}
    /\ pc' = "clear_second"
    /\ UNCHANGED <<fs0, exit_status, error, epic_dir, engine_isdir, project_isfile,
                   scan_devenv, procs, ue_result, todo, missing_logged, tool_present,
                   tool_runs, tool_rc, tool_log>>

ClearSecond ==
    /\ pc = "clear_second"
    /\ fs' = ClearDirectory(fs, RootPath)
    /\ pc' = "clear_done"
    /\ UNCHANGED <<fs0, snap, exit_status, error, epic_dir, engine_isdir, project_isfile,
                   scan_devenv, procs, ue_result, cleared, todo, missing_logged,
                   tool_present, tool_runs, tool_rc, tool_log>>

NextClear == ClearFirst \/ ClearSecond

SpecClear == InitClear /\ [][NextClear]_vars

----------------------------------------------------------------------------
(* is_running_ue_solution on its own: called on a process table *)

InitScan ==
    /\ pc = "ue_call"
    /\ fs = MkFs(BaseEntries \cup {File(ProjectPath)})
    /\ procs \in ProcTables
    /\ InitCommon

CallUe ==
    /\ pc = "ue_call"
    /\ ue_result' = IsRunningUeSolution(procs, ProjectPath)
    /\ pc' = "ue_ret"
    /\ UNCHANGED <<fs, fs0, snap, exit_status, error, epic_dir, engine_isdir,
                   project_isfile, scan_devenv, procs, cleared, todo, missing_logged,
                   tool_present, tool_runs, tool_rc, tool_log>>

NextScan == CallUe

SpecScan == InitScan /\ [][NextScan]_vars

----------------------------------------------------------------------------
(* What the properties speak of *)

\* the five names a directory is removed for
ArtifactNames == {DotVs, Binaries, DerivedDataCache, Intermediate, Saved}

\* .sln in every spelling
SlnSpellings == {<<".", a, b, c>> : a \in {"s", "S"}, b \in {"l", "L"}, c \in {"n", "N"}}

\* the name ends in one of these spellings, after a stem that is not only dots
HasSlnExtension(name) ==
    /\ Len(name) > 4
    /\ SubSeq(name, Len(name) - 3, Len(name)) \in SlnSpellings
    /\ \E i \in 1..(Len(name) - 4) : name[i] # "."

\* p and all that was below it is as it was when the run started
SameBelow(p) == \A q \in DOMAIN fs0 : IsPrefix(p, q) => q \in DOMAIN fs /\ fs[q] = fs0[q]

\* nothing is left of p
GoneBelow(p) == \A q \in DOMAIN fs : ~IsPrefix(p, q)

\* nothing has been deleted, no directory has been handed to clear_directory and
\* the build tool has not been started
Untouched == fs = fs0 /\ cleared = {} /\ tool_runs = 0

\* clean_project has returned
CleanReturned == pc \in {"create", "done"} \/ tool_present # "unread"

\* the directories right below Plugins when the run started
PluginDirs == {Join(PluginPath, n) : n \in {m \in ListDir(fs0, PluginPath) : IsDir(fs0, Join(PluginPath, m))}}

\* d holds no directory with an artifact name and no solution file
Clean(d) ==
    \A n \in ListDir(fs, d) :
        /\ ~(IsDir(fs, Join(d, n)) /\ n \in ArtifactNames)
        /\ ~(IsFile(fs, Join(d, n)) /\ HasSlnExtension(n))

----------------------------------------------------------------------------
(* Properties *)

\* C1: a failed validation (EPIC_DIR unset or empty, engine directory missing,
\* project path not a file) ends the process with status 1 with nothing deleted
\* and the build tool not started; and whatever is deleted or started is so
\* only after the three validations passed, in that order.
ValidationAborts ==
    /\ (epic_dir \in {"unset", "empty"} \/ engine_isdir = "false" \/ project_isfile = "false")
          => pc = "exited" /\ exit_status = 1 /\ Untouched /\ tool_present = "unread"
    /\ ~Untouched => epic_dir = "set" /\ engine_isdir = "true" /\ project_isfile = "true"
    /\ project_isfile # "unread" => engine_isdir = "true"
    /\ engine_isdir # "unread" => epic_dir = "set"

ValidationAbortsWitness ==
    /\ project_isfile = "false"
    /\ pc = "exited"
    /\ IsDir(fs0, Join(RootPath, Binaries))
    /\ IsFile(fs0, Join(RootPath, GameSln))

\* C2: when a process named devenv.exe was in the table scanned, the run has
\* ended with status 1 with nothing deleted and the build tool not started,
\* whatever that process's command line.
DevenvAborts ==
    scan_devenv => pc \in {"exited", "crashed"} /\ exit_status = 1 /\ Untouched

DevenvAbortsWitness ==
    /\ scan_devenv
    /\ pc = "exited"
    /\ project_isfile = "true"
    /\ IsDir(fs0, Join(RootPath, Binaries))

\* an editor process one of whose arguments contains the project's file name,
\* whatever the case
EditorHasProject(p, uproject_path) ==
    /\ p.name # NoneName
    /\ \/ Contains(Lower(UE4Editor), Lower(p.name))
       \/ Contains(Lower(UnrealEditor), Lower(p.name))
    /\ p.cmdline # NoneCmdline
    /\ \E a \in 1..Len(p.cmdline) :
          Contains(Lower(BaseName(uproject_path)), Lower(p.cmdline[a]))

\* C3: whenever is_running_ue_solution returns, it returns true exactly when
\* some editor process of the table has the project among its arguments,
\* wherever in the table that process is.
UeFindsEveryEditor ==
    (pc = "ue_ret" /\ ue_result \in {"true", "false"})
        => (ue_result = "true" <=> \E i \in 1..Len(procs) : EditorHasProject(procs[i], ProjectPath))

\* C4: after clear_directory a directory right below the target is gone with all
\* below it when its name is one of the five artifact names, and is there with
\* all below it unchanged otherwise.
ClearRemovesArtifactDirs ==
    pc # "clear_first" =>
        \A n \in ListDir(fs0, RootPath) :
            IsDir(fs0, Join(RootPath, n)) =>
                IF n \in ArtifactNames THEN GoneBelow(Join(RootPath, n))
                                       ELSE SameBelow(Join(RootPath, n))

ClearRemovesArtifactDirsWitness ==
    /\ pc = "clear_second"
    /\ IsFile(fs0, <<Proj, Binaries, ObjFile>>)
    /\ ~Exists(fs, Join(RootPath, Binaries))
    /\ IsDir(fs, <<Proj, Source, Binaries>>)
    /\ IsFile(fs, <<Proj, LowerBinaries, ObjFile>>)

\* C5: after clear_directory a file right below the target is gone exactly when
\* its extension is .sln in some spelling; every other file is still a file.
ClearRemovesSolutionFiles ==
    pc # "clear_first" =>
        \A n \in ListDir(fs0, RootPath) :
            IsFile(fs0, Join(RootPath, n)) =>
                IF HasSlnExtension(n) THEN ~Exists(fs, Join(RootPath, n))
                                      ELSE IsFile(fs, Join(RootPath, n))

ClearRemovesSolutionFilesWitness ==
    /\ pc = "clear_second"
    /\ IsFile(fs0, Join(RootPath, UpperSln))
    /\ ~Exists(fs, Join(RootPath, UpperSln))
    /\ IsFile(fs, Join(RootPath, HiddenSln))
    /\ IsFile(fs, Join(RootPath, SlnBak))

\* C6: when the project's directory has no Plugins entry, clean_project raises
\* nothing, hands the project's directory and nothing else to clear_directory,
\* has printed the message when it returns, and leaves everything outside the
\* project's directory as it was.
NoPluginsReturns ==
    ~Exists(fs0, PluginPath) =>
        /\ pc = "crashed" => cleared = {}
        /\ pc # "plugin_loop"
        /\ cleared \subseteq {RootPath}
        /\ missing_logged <=> CleanReturned
        /\ CleanReturned => cleared = {RootPath}
        /\ \A q \in DOMAIN fs0 : ~IsPrefix(RootPath, q) => q \in DOMAIN fs /\ fs[q] = fs0[q]

NoPluginsReturnsWitness ==
    /\ ~Exists(fs0, PluginPath)
    /\ pc = "create"
    /\ missing_logged
    /\ fs # fs0

\* C7: clear_directory is handed the project's directory and the directories
\* right below Plugins, and nothing else; once clean_project has returned it
\* has been handed all of them; what lies two levels below a plugin's
\* directory or below a directory that is kept stays.
CleanExactly ==
    /\ \A p \in cleared : p = RootPath \/ p \in PluginDirs
    /\ CleanReturned => cleared = {RootPath} \cup PluginDirs
    /\ \A q \in DOMAIN fs0 :
          (Len(q) > 4 /\ IsPrefix(PluginPath, q)) => q \in DOMAIN fs /\ fs[q] = fs0[q]

\* C8: when the build-tool binary is found missing, clean_project has already
\* made its deletions, the tool is not started and the process ends with
\* status 1.
ToolMissingAborts ==
    tool_present = "false" =>
        /\ pc = "exited" /\ exit_status = 1
        /\ tool_runs = 0 /\ tool_log = "none"
        /\ todo = {}
        /\ cleared = {RootPath} \cup PluginDirs
        /\ \A d \in cleared : Clean(d)

ToolMissingAbortsWitness ==
    /\ tool_present = "false"
    /\ IsFile(fs0, <<Proj, Plugins, PlugA, UpperSln>>)
    /\ IsDir(fs0, Join(RootPath, Binaries))
    /\ fs # fs0

\* C9: the build tool is started at most once; when it has been started the
\* process ends with status 0 whatever the tool returned, and the tool's
\* return code only chooses the message printed.
ToolRunsOnce ==
    /\ tool_runs <= 1
    /\ tool_runs = 1 <=> pc = "done"
    /\ tool_runs = 1 =>
          /\ exit_status = 0
          /\ tool_log = (IF tool_rc = 0 THEN "regenerated" ELSE "failed")

ToolRunsOnceWitness ==
    /\ tool_runs = 1
    /\ tool_rc = 1
    /\ exit_status = 0
    /\ tool_log = "failed"

\* C10: a second clear_directory right after the first leaves the tree as the
\* first left it.
ClearIdempotent == pc = "clear_done" => fs = snap

ClearIdempotentWitness ==
    /\ pc = "clear_done"
    /\ snap # fs0
    /\ Cardinality(DOMAIN fs0 \ DOMAIN snap) >= 3

====
